---- MODULE Spec2Model ----
(***************************************************************************)
(* Model of atreugo's router (router.go as found in                        *)
(* src/examples/middlewares_filters/main.go, lines 36-438): the tree of    *)
(* route groups, the middleware lists, the construction of the handler     *)
(* chain of a path, its registration in the underlying fasthttp router     *)
(* (with the automatic OPTIONS handler) and the dispatch of a request      *)
(* through a chain.                                                        *)
(*                                                                         *)
(* Not modelled: static file serving, net/http adaptors, the timeout       *)
(* wrapper of a path (handlePath line 201-203), Router.Middlewares (the    *)
(* setter that overwrites the lists) and the ANY method.                   *)
(***************************************************************************)
EXTENDS Naturals, Sequences, FiniteSets, TLC

VARIABLES
    routers,        \* the Router objects (root first); a group names its parent
    router,         \* the one fasthttp router every Router object points to
    cfg,            \* the routerConfig shared by the whole tree
    paths,          \* the Path objects returned by Router.Path
    panicked,       \* a registration panicked: the program is gone
    pool,           \* the pooled RequestCtx (its fields survive between requests)
    pc,             \* position of the request handler: idle, loop, release, done
    cur,            \* <<method, url>> of the handler serving the current request
    i,              \* loop index of the request handler (1-based)
    actx,           \* the acquired RequestCtx: [next, skipView]
    response,       \* actx.Response: [status, allow]
    held,           \* actx is acquired and not yet released
    acquired,       \* AcquireRequestCtx calls of the current request
    released,       \* ReleaseRequestCtx calls of the current request
    trace,          \* handlers of the chain invoked for the current request
    errorViewCalls  \* calls of cfg.errorView for the current request

regVars == <<routers, router, cfg, paths, panicked>>
reqVars == <<pool, pc, cur, i, actx, response, held, acquired, released, trace, errorViewCalls>>
vars == <<routers, router, cfg, paths, panicked,
          pool, pc, cur, i, actx, response, held, acquired, released, trace, errorViewCalls>>

----------------------------------------------------------------------------
(* Bounds of the model *)

\* registration calls (NewGroupPath, Use..., Path) of one run of Spec
MaxCalls == 4
\* Router objects (root included) of one run of SpecRoutes
MaxRouters == 3
\* Path objects of one run of SpecRoutes
MaxPaths == 2
\* before- and after-middlewares of the router that serves SpecDispatch
MaxBefore == 2
MaxAfter == 2

----------------------------------------------------------------------------
(* Values *)

MethodGet == "GET"
MethodPost == "POST"
MethodOptions == "OPTIONS"

\* methods in the order sort.Strings gives them
MethodOrder == <<MethodGet, MethodOptions, MethodPost>>
Methods == {MethodOrder[k] : k \in 1..Len(MethodOrder)}
\* what a caller may pass as method: "get" is not upper case
InputMethods == Methods \cup {"get"}

Prefixes == {"/g", "/h"}
Urls == {"/a"}

\* the application's middleware functions; 0 is the debug middleware closure
UserMiddlewares == {1, 2}
DebugMiddleware == 0

\* view functions: 0 is emptyView
UserViews == {1}
EmptyViewId == 0

NoParent == 0

EmptyMiddlewares == [Before |-> <<>>, After |-> <<>>, Skip |-> <<>>]

\* a View value: the function, and the Allow header when buildOptionsView wrapped it
PlainView(id) == [id |-> id, options |-> FALSE, allow |-> ""]
emptyView == PlainView(EmptyViewId)

\* the elements of a handler chain
Mw(m) == [kind |-> "mw", id |-> m, options |-> FALSE, allow |-> ""]
ViewEl(v) == [kind |-> "view", id |-> v.id, options |-> v.options, allow |-> v.allow]

Range(s) == {s[k] : k \in 1..Len(s)}

\* F of the value of e, e evaluated once
Let(e, F(_)) == CHOOSE v \in {F(x) : x \in {e}} : TRUE

----------------------------------------------------------------------------
(* Helpers of other packages *)

\* gstrings.Include
Include(vs, t) == \E k \in 1..Len(vs) : vs[k] = t

\* gstrings.UniqueAppend
UniqueAppend(vs, t) == IF Include(vs, t) THEN vs ELSE Append(vs, t)

\* strings.ToUpper on the methods a caller passes
ToUpper(m) == IF m = "get" THEN "GET" ELSE m

\* sort.Strings of a set of methods
SortStrings(S) == SelectSeq(MethodOrder, LAMBDA m : m \in S)

RECURSIVE Join(_, _)
\* strings.Join
Join(a, sep) ==
    IF Len(a) = 0 THEN ""
    ELSE IF Len(a) = 1 THEN a[1]
    ELSE a[1] \o sep \o Join(Tail(a), sep)

\* fastrouter.Router.List: method -> urls, in registration order
List(rt) == rt.registeredPaths

\* fastrouter.Router.Mutable
Mutable(rt, v) == [rt EXCEPT !.treeMutable = v]

\* fastrouter.Router.Handle: the path is listed, then added to the method's
\* tree; adding a path that has a handler replaces it when the tree is
\* mutable and panics otherwise
Handle(rt, method, path, h) ==
    LET listed == [rt EXCEPT !.registeredPaths[method] = Append(@, path)]
        key == <<method, path>>
    IN  IF key \in DOMAIN rt.handlers /\ ~rt.treeMutable
        THEN [router |-> listed, panic |-> TRUE]
        ELSE [router |-> [listed EXCEPT !.handlers =
                             [k \in DOMAIN @ \cup {key} |-> IF k = key THEN h ELSE @[k]]],
              panic |-> FALSE]

----------------------------------------------------------------------------
(* middlewares.go *)

middlewaresInclude(ms, fn) == \E k \in 1..Len(ms) : ms[k] = fn

appendMiddlewares(dst, src, skip) ==
    dst \o SelectSeq(src, LAMBDA fn : ~middlewaresInclude(skip, fn))

----------------------------------------------------------------------------
(* router.go *)

buildOptionsView(url, fn, listed) ==
    LET found == {m \in DOMAIN listed : m # MethodOptions /\ Include(listed[m], url)}
        allow == IF found = {} THEN {MethodOptions} ELSE found
    IN  [id |-> fn.id, options |-> TRUE, allow |-> Join(SortStrings(allow), ", ")]

newRouter ==
    [parent |-> NoParent, prefix |-> "", routerMutable |-> FALSE, handleOPTIONS |-> TRUE,
     middlewares |-> EmptyMiddlewares, customOPTIONS |-> <<>>]

newFastRouter ==
    [treeMutable |-> FALSE,
     registeredPaths |-> [m \in Methods |-> <<>>],
     handlers |-> <<>>]

\* Router.mutable on the state S = [routers, router, panicked]
mutable(S, r, v) ==
    IF v # S.routers[r].routerMutable
    THEN [S EXCEPT !.routers[r].routerMutable = v, !.router = Mutable(@, v)]
    ELSE S

RECURSIVE buildMiddlewares_RouteFirst(_, _, _, _)
\* buildMiddlewares with the router's before-middlewares appended after the
\* ones collected so far
buildMiddlewares_RouteFirst(rs, c, r, m) ==
    LET m2 == [Before |-> m.Before \o rs[r].middlewares.Before,
               After |-> m.After \o rs[r].middlewares.After,
               Skip |-> m.Skip \o rs[r].middlewares.Skip]
    IN  IF rs[r].parent # NoParent
        THEN buildMiddlewares_RouteFirst(rs, c, rs[r].parent, m2)
        ELSE LET m3 == IF c.debug
                       THEN [m2 EXCEPT !.Before = <<DebugMiddleware>> \o @]
                       ELSE m2
             IN  [m3 EXCEPT !.Before = appendMiddlewares(<<>>, m3.Before, m3.Skip),
                            !.After = appendMiddlewares(<<>>, m3.After, m3.Skip)]

RECURSIVE buildMiddlewares_RouteSkipOnly(_, _, _, _)
\* buildMiddlewares without the routers' skip lists
buildMiddlewares_RouteSkipOnly(rs, c, r, m) ==
    LET m2 == [Before |-> rs[r].middlewares.Before \o m.Before,
               After |-> m.After \o rs[r].middlewares.After,
               Skip |-> m.Skip]
    IN  IF rs[r].parent # NoParent
        THEN buildMiddlewares_RouteSkipOnly(rs, c, rs[r].parent, m2)
        ELSE LET m3 == IF c.debug
                       THEN [m2 EXCEPT !.Before = <<DebugMiddleware>> \o @]
                       ELSE m2
             IN  [m3 EXCEPT !.Before = appendMiddlewares(<<>>, m3.Before, m3.Skip),
                            !.After = appendMiddlewares(<<>>, m3.After, m3.Skip)]

RECURSIVE buildMiddlewares(_, _, _, _)
buildMiddlewares(rs, c, r, m) ==
    LET m2 == [Before |-> rs[r].middlewares.Before \o m.Before,
               After |-> m.After \o rs[r].middlewares.After,
               Skip |-> m.Skip \o rs[r].middlewares.Skip]
    IN  IF rs[r].parent # NoParent
        THEN buildMiddlewares(rs, c, rs[r].parent, m2)
        ELSE LET m3 == IF c.debug
                       THEN [m2 EXCEPT !.Before = <<DebugMiddleware>> \o @]
                       ELSE m2
             IN  [m3 EXCEPT !.Before = appendMiddlewares(<<>>, m3.Before, m3.Skip),
                            !.After = appendMiddlewares(<<>>, m3.After, m3.Skip)]

RECURSIVE getGroupFullPath_PrefixLast(_, _, _)
\* getGroupFullPath with the prefix put after the path
getGroupFullPath_PrefixLast(rs, r, path) ==
    IF rs[r].parent # NoParent
    THEN getGroupFullPath_PrefixLast(rs, rs[r].parent, path \o rs[r].prefix)
    ELSE path

RECURSIVE getGroupFullPath(_, _, _)
getGroupFullPath(rs, r, path) ==
    IF rs[r].parent # NoParent
    THEN getGroupFullPath(rs, rs[r].parent, rs[r].prefix \o path)
    ELSE path

\* Router.handler: the chain of the request handler it returns
handler(rs, c, r, fn, middle) ==
    LET built == buildMiddlewares(rs, c, r, middle)
        chain == [k \in 1..Len(built.Before) |-> Mw(built.Before[k])]
                 \o <<ViewEl(fn)>>
                 \o [k \in 1..Len(built.After) |-> Mw(built.After[k])]
    IN  [r |-> r, chain |-> chain, chainLen |-> Len(chain)]

\* the switch that opens Router.handlePath (lines 184-192)
selectMutable(S, r, p) ==
    IF p.registered THEN mutable(S, r, TRUE)
    ELSE IF p.method = MethodOptions
    THEN mutable(S, r, ~Include(S.routers[r].customOPTIONS, p.url))
    ELSE IF S.routers[r].routerMutable THEN mutable(S, r, FALSE)
    ELSE S

\* the registration of the path's own handler (lines 194-205)
registerView(S, c, r, p) ==
    LET isOPTIONS == p.method = MethodOptions
        view == IF isOPTIONS THEN buildOptionsView(p.url, p.view, List(S.router))
                ELSE p.view
        rs == IF isOPTIONS
              THEN [S.routers EXCEPT ![r].customOPTIONS = UniqueAppend(@, p.url)]
              ELSE S.routers
    IN  Let(Handle(S.router, p.method, p.url, handler(rs, c, r, view, p.middlewares)),
            LAMBDA done : [routers |-> rs, router |-> done.router, panicked |-> done.panic])

\* the registration of the automatic OPTIONS handler (lines 208-212)
registerOptions(S, c, r, p) ==
    LET view == buildOptionsView(p.url, emptyView, List(S.router))
    IN  Let(mutable(S, r, TRUE), LAMBDA S1 :
        Let(Handle(S1.router, MethodOptions, p.url,
                   handler(S1.routers, c, r, view, p.middlewares)),
            LAMBDA done : [S1 EXCEPT !.router = done.router, !.panicked = done.panic]))

\* Router.handlePath on the state S = [routers, router, panicked]
handlePath(S, c, r, p) ==
    Let(selectMutable(S, r, p), LAMBDA S1 :
    Let(registerView(S1, c, r, p), LAMBDA S2 :
        IF ~S2.panicked /\ S2.routers[r].handleOPTIONS /\ ~p.registered
           /\ p.method # MethodOptions
        THEN registerOptions(S2, c, r, p)
        ELSE S2))

NewGroupPathObj(rs, r, path) ==
    [parent |-> r, prefix |-> path, routerMutable |-> rs[r].routerMutable,
     handleOPTIONS |-> rs[r].handleOPTIONS,
     middlewares |-> EmptyMiddlewares, customOPTIONS |-> <<>>]

\* UseBefore on a group whose list is the parent's list
UseBeforeObj_Shared(rs, r, fns) ==
    [g \in 1..Len(rs) |->
        IF g = r \/ g = rs[r].parent
        THEN [rs[g] EXCEPT !.middlewares.Before = @ \o fns]
        ELSE rs[g]]

UseBeforeObj(rs, r, fns) == [rs EXCEPT ![r].middlewares.Before = @ \o fns]

UseAfterObj(rs, r, fns) == [rs EXCEPT ![r].middlewares.After = @ \o fns]

SkipMiddlewaresObj(rs, r, fns) == [rs EXCEPT ![r].middlewares.Skip = @ \o fns]

----------------------------------------------------------------------------
(* Registration: the calls an application makes while it sets the server up *)

State == [routers |-> routers, router |-> router, panicked |-> panicked]

\* the argument lists of a variadic registration: one or two middlewares
FnsArgs == {<<a>> : a \in UserMiddlewares}
           \cup {<<a, b>> : a \in UserMiddlewares, b \in UserMiddlewares}

NewGroupPath(r, path) ==
    /\ ~panicked
    /\ routers' = Append(routers, NewGroupPathObj(routers, r, path))
    /\ UNCHANGED <<router, cfg, paths, panicked>>
    /\ UNCHANGED reqVars

UseBefore(r, fns) ==
    /\ ~panicked
    /\ routers' = UseBeforeObj(routers, r, fns)
    /\ UNCHANGED <<router, cfg, paths, panicked>>
    /\ UNCHANGED reqVars

UseAfter(r, fns) ==
    /\ ~panicked
    /\ routers' = UseAfterObj(routers, r, fns)
    /\ UNCHANGED <<router, cfg, paths, panicked>>
    /\ UNCHANGED reqVars

SkipMiddlewares(r, fns) ==
    /\ ~panicked
    /\ routers' = SkipMiddlewaresObj(routers, r, fns)
    /\ UNCHANGED <<router, cfg, paths, panicked>>
    /\ UNCHANGED reqVars

\* the outcome of handlePath(p) called for Path object number n; a panic ends
\* the program where it stands
Registered(r, n, p) ==
    \E S \in {handlePath(State, cfg, r, p)} :
        IF S.panicked
        THEN /\ panicked' = TRUE
             /\ UNCHANGED <<routers, router, paths>>
        ELSE /\ routers' = S.routers
             /\ router' = S.router
             /\ paths' = [k \in 1..(IF n > Len(paths) THEN n ELSE Len(paths)) |->
                             IF k = n THEN [p EXCEPT !.registered = TRUE] ELSE paths[k]]
             /\ UNCHANGED panicked

Path(r, method, url, viewFn) ==
    /\ ~panicked
    /\ IF method # ToUpper(method)
       THEN /\ panicked' = TRUE
            /\ UNCHANGED <<routers, router, paths>>
       ELSE Registered(r, Len(paths) + 1,
                       [router |-> r, method |-> method,
                        url |-> getGroupFullPath(routers, r, url),
                        view |-> viewFn, middlewares |-> EmptyMiddlewares,
                        registered |-> FALSE])
    /\ UNCHANGED cfg
    /\ UNCHANGED reqVars

\* path.go: Path.UseBefore, Path.UseAfter and Path.SkipMiddlewares append to the
\* path's own list and register the path again
PathUseBefore(n, fns) ==
    /\ ~panicked
    /\ Registered(paths[n].router, n, [paths[n] EXCEPT !.middlewares.Before = @ \o fns])
    /\ UNCHANGED cfg
    /\ UNCHANGED reqVars

PathUseAfter(n, fns) ==
    /\ ~panicked
    /\ Registered(paths[n].router, n, [paths[n] EXCEPT !.middlewares.After = @ \o fns])
    /\ UNCHANGED cfg
    /\ UNCHANGED reqVars

PathSkipMiddlewares(n, fns) ==
    /\ ~panicked
    /\ Registered(paths[n].router, n, [paths[n] EXCEPT !.middlewares.Skip = @ \o fns])
    /\ UNCHANGED cfg
    /\ UNCHANGED reqVars

----------------------------------------------------------------------------
(* Spec: groups, middleware lists and the chains of the paths registered *)

MwCount(m) == Len(m.Before) + Len(m.After) + Len(m.Skip)

RECURSIVE SumOver(_, _)
SumOver(s, k) == IF k = 0 THEN 0 ELSE MwCount(s[k].middlewares) + SumOver(s, k - 1)

\* registration calls made so far, a call with two middlewares counted twice
Calls == (Len(routers) - 1) + Len(paths)
         + SumOver(routers, Len(routers)) + SumOver(paths, Len(paths))

Fits(n) == Calls + n <= MaxCalls

ReqIdle ==
    /\ pool = [next |-> FALSE, skipView |-> FALSE]
    /\ pc = "idle"
    /\ cur = <<>>
    /\ i = 0
    /\ actx = [next |-> FALSE, skipView |-> FALSE]
    /\ response = [status |-> 0, allow |-> ""]
    /\ held = FALSE
    /\ acquired = 0
    /\ released = 0
    /\ trace = <<>>
    /\ errorViewCalls = <<>>

Init ==
    /\ routers = <<newRouter>>
    /\ router = newFastRouter
    /\ cfg \in {[debug |-> d] : d \in BOOLEAN}
    /\ paths = <<>>
    /\ panicked = FALSE
    /\ ReqIdle

ChainPrefixes == {"/g"}
ChainMethods == {MethodGet, MethodOptions}

Next ==
    \/ \E r \in 1..Len(routers), path \in ChainPrefixes :
          Fits(1) /\ NewGroupPath(r, path)
    \/ \E r \in 1..Len(routers), fns \in FnsArgs : Fits(Len(fns)) /\ UseBefore(r, fns)
    \/ \E r \in 1..Len(routers), fns \in FnsArgs : Fits(Len(fns)) /\ UseAfter(r, fns)
    \/ \E r \in 1..Len(routers), fns \in FnsArgs : Fits(Len(fns)) /\ SkipMiddlewares(r, fns)
    \/ \E r \in 1..Len(routers), method \in ChainMethods, url \in Urls, v \in UserViews :
          Fits(1) /\ Path(r, method, url, PlainView(v))
    \/ \E n \in 1..Len(paths), fns \in FnsArgs : Fits(Len(fns)) /\ PathUseBefore(n, fns)
    \/ \E n \in 1..Len(paths), fns \in FnsArgs : Fits(Len(fns)) /\ PathUseAfter(n, fns)
    \/ \E n \in 1..Len(paths), fns \in FnsArgs : Fits(Len(fns)) /\ PathSkipMiddlewares(n, fns)

Spec == Init /\ [][Next]_vars

----------------------------------------------------------------------------
(* SpecRoutes: groups with different prefixes and paths of every method,   *)
(* no middlewares                                                          *)

InitRoutes ==
    /\ routers = <<newRouter>>
    /\ router = newFastRouter
    /\ cfg = [debug |-> FALSE]
    /\ paths = <<>>
    /\ panicked = FALSE
    /\ ReqIdle

NextRoutes ==
    \/ \E r \in 1..Len(routers), path \in Prefixes :
          Len(routers) < MaxRouters /\ NewGroupPath(r, path)
    \/ \E r \in 1..Len(routers), method \in InputMethods, url \in Urls, v \in UserViews :
          Len(paths) < MaxPaths /\ Path(r, method, url, PlainView(v))

SpecRoutes == InitRoutes /\ [][NextRoutes]_vars

----------------------------------------------------------------------------
(* The request handler Router.handler returns (lines 156-178) *)

StatusOK == 200
StatusInternalServerError == 500

\* what a middleware or a view may set the response status to; 0: it sets none
HandlerStatuses == {0, StatusOK, 404}

NoError == "nil"
Errors == {"err1", "err2"}

\* what one call of a middleware or view of the application does
Behaviours ==
    [next : BOOLEAN, err : {NoError} \cup Errors, status : HandlerStatuses,
     skipView : BOOLEAN]

\* context.go: RequestCtx.Next
NextCtx(ctx) == [ctx EXCEPT !.next = TRUE]

\* context.go: AcquireRequestCtx takes the context out of the pool as it is
AcquireRequestCtx(pooled) == pooled

\* context.go: ReleaseRequestCtx resets the context and puts it back
ReleaseRequestCtx(ctx) == [ctx EXCEPT !.next = FALSE, !.skipView = FALSE]

\* a function of the application called with ctx: it may call ctx.Next and
\* ctx.SkipView, set the status code and return an error
userCall(ctx, resp, b) ==
    [ctx |-> [next |-> ctx.next \/ b.next, skipView |-> ctx.skipView \/ b.skipView],
     resp |-> [resp EXCEPT !.status = IF b.status = 0 THEN @ ELSE b.status],
     err |-> b.err, calledNext |-> b.next, view |-> FALSE]

\* a before- or after-middleware of the chain; the debug middleware logs and
\* returns ctx.Next()
middlewareCall(el, ctx, resp, b) ==
    IF el.id = DebugMiddleware
    THEN [ctx |-> NextCtx(ctx), resp |-> resp, err |-> NoError, calledNext |-> TRUE,
          view |-> FALSE]
    ELSE userCall(ctx, resp, b)

\* the view of the chain: fn, wrapped by buildOptionsView when it serves OPTIONS
viewCall(el, ctx, resp, b) ==
    LET resp1 == IF el.options THEN [resp EXCEPT !.allow = el.allow] ELSE resp
    IN  IF el.id = EmptyViewId
        THEN [ctx |-> ctx, resp |-> resp1, err |-> NoError, calledNext |-> FALSE,
              view |-> TRUE]
        ELSE [userCall(ctx, resp1, b) EXCEPT !.view = TRUE]

\* the closure of the view's position without its ctx.Next()
viewHandler_NoNext(el, ctx, resp, b) ==
    IF ~ctx.skipView
    THEN viewCall(el, ctx, resp, b)
    ELSE [ctx |-> ctx, resp |-> resp, err |-> NoError, calledNext |-> FALSE,
          view |-> FALSE]

\* the closure Router.handler puts at the view's position (lines 144-152)
viewHandler(el, ctx, resp, b) ==
    IF ~ctx.skipView
    THEN Let(viewCall(el, ctx, resp, b), LAMBDA x :
             IF x.err # NoError THEN x
             ELSE [x EXCEPT !.ctx = NextCtx(@), !.calledNext = TRUE])
    ELSE [ctx |-> NextCtx(ctx), resp |-> resp, err |-> NoError, calledNext |-> TRUE,
          view |-> FALSE]

\* the status code always replaced
inferStatusCode_Always500(statusCode) == StatusInternalServerError

\* lines 161-164
inferStatusCode(statusCode) ==
    IF statusCode = StatusOK THEN StatusInternalServerError ELSE statusCode

\* defaultErrorView: ctx.Error(err.Error(), statusCode)
defaultErrorView(resp, err, statusCode) == [resp EXCEPT !.status = statusCode]

\* the loop body without the break that follows the error view
loopStep_NoBreak(x, idx) ==
    IF x.err # NoError
    THEN [pc |-> "loop", errorView |-> TRUE, ctx |-> [x.ctx EXCEPT !.next = FALSE],
          i |-> idx + 1]
    ELSE IF ~x.ctx.next
    THEN [pc |-> "release", errorView |-> FALSE, ctx |-> x.ctx, i |-> idx]
    ELSE [pc |-> "loop", errorView |-> FALSE, ctx |-> [x.ctx EXCEPT !.next = FALSE],
          i |-> idx + 1]

\* the loop body without actx.next = false
loopStep_KeepNext(x, idx) ==
    IF x.err # NoError
    THEN [pc |-> "release", errorView |-> TRUE, ctx |-> x.ctx, i |-> idx]
    ELSE IF ~x.ctx.next
    THEN [pc |-> "release", errorView |-> FALSE, ctx |-> x.ctx, i |-> idx]
    ELSE [pc |-> "loop", errorView |-> FALSE, ctx |-> x.ctx, i |-> idx + 1]

\* the loop body returning after the error view, the context not released
loopStep_ReturnOnError(x, idx) ==
    IF x.err # NoError
    THEN [pc |-> "done", errorView |-> TRUE, ctx |-> x.ctx, i |-> idx]
    ELSE IF ~x.ctx.next
    THEN [pc |-> "release", errorView |-> FALSE, ctx |-> x.ctx, i |-> idx]
    ELSE [pc |-> "loop", errorView |-> FALSE, ctx |-> [x.ctx EXCEPT !.next = FALSE],
          i |-> idx + 1]

\* the body of the loop after chain[i] returned x (lines 160-174) and i++
loopStep(x, idx) ==
    IF x.err # NoError
    THEN [pc |-> "release", errorView |-> TRUE, ctx |-> x.ctx, i |-> idx]
    ELSE IF ~x.ctx.next
    THEN [pc |-> "release", errorView |-> FALSE, ctx |-> x.ctx, i |-> idx]
    ELSE [pc |-> "loop", errorView |-> FALSE, ctx |-> [x.ctx EXCEPT !.next = FALSE],
          i |-> idx + 1]

\* a request arrives for a registered handler: actx := AcquireRequestCtx(ctx)
Acquire(key) ==
    /\ ~panicked
    /\ pc \in {"idle", "done"}
    /\ key \in DOMAIN router.handlers
    /\ cur' = key
    /\ actx' = AcquireRequestCtx(pool)
    /\ held' = TRUE
    /\ acquired' = 1
    /\ released' = 0
    /\ response' = [status |-> StatusOK, allow |-> ""]
    /\ trace' = <<>>
    /\ errorViewCalls' = <<>>
    /\ i' = 1
    /\ pc' = IF 1 <= router.handlers[key].chainLen THEN "loop" ELSE "release"
    /\ UNCHANGED pool
    /\ UNCHANGED regVars

\* one iteration of the loop: chain[i](actx) and what follows it
Step(b) ==
    /\ pc = "loop"
    /\ \E h \in {router.handlers[cur]} :
       \E el \in {h.chain[i]} :
       \E x \in {IF el.kind = "view" THEN viewHandler(el, actx, response, b)
                 ELSE middlewareCall(el, actx, response, b)} :
       \E out \in {loopStep(x, i)}, statusCode \in {inferStatusCode(x.resp.status)} :
           /\ trace' = Append(trace,
                  [pos |-> i, kind |-> el.kind, skip |-> actx.skipView, view |-> x.view,
                   fnNext |-> IF x.view THEN b.next ELSE FALSE,
                   next |-> x.calledNext, err |-> x.err, held |-> held])
           /\ errorViewCalls' =
                  IF out.errorView
                  THEN Append(errorViewCalls,
                           [err |-> x.err, status |-> x.resp.status,
                            statusCode |-> statusCode, held |-> held])
                  ELSE errorViewCalls
           /\ response' = IF out.errorView THEN defaultErrorView(x.resp, x.err, statusCode)
                          ELSE x.resp
           /\ actx' = out.ctx
           /\ i' = out.i
           /\ pc' = IF out.pc = "loop" /\ out.i > h.chainLen THEN "release" ELSE out.pc
    /\ UNCHANGED <<pool, cur, held, acquired, released>>
    /\ UNCHANGED regVars

\* ReleaseRequestCtx(actx), and the handler returns
Release ==
    /\ pc = "release"
    /\ pool' = ReleaseRequestCtx(actx)
    /\ held' = FALSE
    /\ released' = released + 1
    /\ pc' = "done"
    /\ UNCHANGED <<cur, i, actx, response, acquired, trace, errorViewCalls>>
    /\ UNCHANGED regVars

----------------------------------------------------------------------------
(* SpecDispatch: requests served by the handlers of one path, registered   *)
(* on a router with up to MaxBefore before- and MaxAfter after-middlewares *)

MwSeq(n) == [k \in 1..n |-> IF k % 2 = 1 THEN 1 ELSE 2]

Served(nb, na, d, method) ==
    LET rs == UseAfterObj(UseBeforeObj(<<newRouter>>, 1, MwSeq(nb)), 1, MwSeq(na))
        S0 == [routers |-> rs, router |-> newFastRouter, panicked |-> FALSE]
        p == [router |-> 1, method |-> method, url |-> getGroupFullPath(rs, 1, "/a"),
              view |-> PlainView(1), middlewares |-> EmptyMiddlewares,
              registered |-> FALSE]
    IN  Let(handlePath(S0, [debug |-> d], 1, p), LAMBDA S :
            [routers |-> S.routers, router |-> S.router, cfg |-> [debug |-> d],
             paths |-> <<[p EXCEPT !.registered = TRUE]>>])

InitDispatch ==
    /\ \E S \in {Served(nb, na, d, method) :
                     nb \in 0..MaxBefore, na \in 0..MaxAfter, d \in BOOLEAN,
                     method \in {MethodGet, MethodOptions}} :
              /\ routers = S.routers
              /\ router = S.router
              /\ cfg = S.cfg
              /\ paths = S.paths
    /\ panicked = FALSE
    /\ ReqIdle

NextDispatch ==
    \/ \E key \in DOMAIN router.handlers : Acquire(key)
    \/ \E b \in Behaviours : Step(b)
    \/ Release

SpecDispatch == InitDispatch /\ [][NextDispatch]_vars

----------------------------------------------------------------------------
(* What the claims speak of *)

RECURSIVE Lineage(_, _)
\* the routers from the outermost one down to r
Lineage(rs, r) ==
    IF rs[r].parent = NoParent THEN <<r>> ELSE Append(Lineage(rs, rs[r].parent), r)

RECURSIVE Flatten(_)
Flatten(ss) == IF Len(ss) = 0 THEN <<>> ELSE Head(ss) \o Flatten(Tail(ss))

Reverse(s) == [k \in 1..Len(s) |-> s[Len(s) + 1 - k]]

\* the before-middlewares of r's lineage, outermost router first
GroupBefores(rs, r) ==
    Flatten([k \in 1..Len(Lineage(rs, r)) |-> rs[Lineage(rs, r)[k]].middlewares.Before])

\* the after-middlewares of r's lineage, r first and the outermost router last
GroupAfters(rs, r) ==
    Flatten([k \in 1..Len(Lineage(rs, r)) |->
                rs[Reverse(Lineage(rs, r))[k]].middlewares.After])

\* the middlewares in the skip list of path p, of its group or of an ancestor
AllSkips(rs, p) ==
    Range(p.middlewares.Skip)
    \cup UNION {Range(rs[g].middlewares.Skip) : g \in Range(Lineage(rs, p.router))}

Without(s, skip) == SelectSeq(s, LAMBDA m : m \notin skip)

\* the prefixes of a lineage, concatenated outermost first
RECURSIVE PrefixConcat(_, _, _)
PrefixConcat(rs, line, k) ==
    IF k = 0 THEN "" ELSE PrefixConcat(rs, line, k - 1) \o rs[line[k]].prefix

KeyOf(p) == <<p.method, p.url>>

ViewPos(h) == CHOOSE k \in 1..h.chainLen : h.chain[k].kind = "view"
BeforeIds(h) == [k \in 1..(ViewPos(h) - 1) |-> h.chain[k].id]
AfterIds(h) == [k \in 1..(h.chainLen - ViewPos(h)) |-> h.chain[ViewPos(h) + k].id]
\* the middlewares of a chain
ChainIds(h) == {h.chain[k].id : k \in {j \in 1..h.chainLen : h.chain[j].kind = "mw"}}
OneView(h, p) ==
    /\ Cardinality({k \in 1..h.chainLen : h.chain[k].kind = "view"}) = 1
    /\ h.chain[ViewPos(h)].id = p.view.id

\* this step registered (or registered again) Path object n
RegisteredNow(n) == n > Len(paths) \/ paths'[n] # paths[n]

\* the chain the sentence of C1 describes, for path p and its handler h
ChainAsClaimed(rs, p, h) ==
    /\ BeforeIds(h) = GroupBefores(rs, p.router) \o p.middlewares.Before
    /\ OneView(h, p)
    /\ AfterIds(h) = p.middlewares.After \o GroupAfters(rs, p.router)

\* the same chain, the skipped middlewares removed and the debug middleware first
ChainAsBuilt(rs, c, p, h) ==
    /\ BeforeIds(h) =
          (IF c.debug THEN <<DebugMiddleware>> ELSE <<>>)
          \o Without(GroupBefores(rs, p.router) \o p.middlewares.Before, AllSkips(rs, p))
    /\ OneView(h, p)
    /\ AfterIds(h) =
          Without(p.middlewares.After \o GroupAfters(rs, p.router), AllSkips(rs, p))

\* C1 as stated: the chain built at a registration is exactly the ancestors'
\* before-middlewares from the outermost router down, the route's
\* before-middlewares, the view, the route's after-middlewares, and the
\* after-middlewares from the registering group up to the outermost router.
C1_ChainExactlyConcatenation ==
    [][\A n \in 1..Len(paths') :
          RegisteredNow(n) =>
              ChainAsClaimed(routers', paths'[n], router'.handlers[KeyOf(paths'[n])])]_vars

\* C1 amended: the chain built at a registration is that concatenation with
\* every middleware of a skip list of the route, its group or an ancestor
\* removed, preceded by the debug middleware when the router is in debug mode.
C1_ChainOrder ==
    [][\A n \in 1..Len(paths') :
          RegisteredNow(n) =>
              ChainAsBuilt(routers', cfg', paths'[n], router'.handlers[KeyOf(paths'[n])])]_vars

\* a path registered on a group of a group, with middlewares of two levels in
\* its chain
C1_Witness ==
    \E n \in 1..Len(paths) :
        /\ Len(Lineage(routers, paths[n].router)) >= 2
        /\ KeyOf(paths[n]) \in DOMAIN router.handlers
        /\ ChainAsBuilt(routers, cfg, paths[n], router.handlers[KeyOf(paths[n])])
        /\ routers[1].middlewares.Before # <<>>
        /\ routers[paths[n].router].middlewares.Before # <<>>
        /\ Len(Without(BeforeIds(router.handlers[KeyOf(paths[n])]), {DebugMiddleware})) >= 2

\* C2: the chain built at a registration holds no middleware of a skip list
\* of the route, of its group or of an ancestor, and holds every other
\* middleware of the concatenated lists, in the order of the lists.
C2_SkipFiltering ==
    [][\A n \in 1..Len(paths') :
          RegisteredNow(n) =>
              \E p \in {paths'[n]} :
              \E h \in {router'.handlers[KeyOf(p)]} :
              \E skip \in {AllSkips(routers', p)} :
                  /\ \A m \in Range(BeforeIds(h)) \cup Range(AfterIds(h)) : m \notin skip
                  /\ Without(BeforeIds(h), {DebugMiddleware}) =
                        Without(GroupBefores(routers', p.router) \o p.middlewares.Before,
                                skip)
                  /\ AfterIds(h) =
                        Without(p.middlewares.After \o GroupAfters(routers', p.router),
                                skip)]_vars

\* a group skips a before-middleware of the root: the chain of a path of the
\* group lacks it
C2_Witness ==
    \E n \in 1..Len(paths), m \in UserMiddlewares :
        /\ paths[n].router # 1
        /\ KeyOf(paths[n]) \in DOMAIN router.handlers
        /\ ChainAsBuilt(routers, cfg, paths[n], router.handlers[KeyOf(paths[n])])
        /\ m \in Range(routers[1].middlewares.Before)
        /\ m \in Range(routers[paths[n].router].middlewares.Skip)
        /\ m \notin ChainIds(router.handlers[KeyOf(paths[n])])

\* the middlewares router c registered as before- or after-middlewares
OwnMiddlewares(rs, c) == Range(rs[c].middlewares.Before) \cup Range(rs[c].middlewares.After)

\* the middlewares path p has of its own or from its lineage
Inherited(rs, p) ==
    Range(GroupBefores(rs, p.router)) \cup Range(GroupAfters(rs, p.router))
    \cup Range(p.middlewares.Before) \cup Range(p.middlewares.After)

\* C5: UseBefore, UseAfter and SkipMiddlewares on a router leave every other
\* router and every registered handler as they were, a path registration
\* leaves every router's lists as they were, and the chain of a path holds no
\* middleware that only a router outside the path's lineage registered.
C5_GroupsDoNotShare ==
    [][/\ \A r \in 1..Len(routers), fns \in FnsArgs :
             (UseBefore(r, fns) \/ UseAfter(r, fns) \/ SkipMiddlewares(r, fns)) =>
                 /\ \A g \in (1..Len(routers)) \ {r} : routers'[g] = routers[g]
                 /\ router' = router
       /\ \A n \in 1..Len(paths') :
             RegisteredNow(n) =>
                 /\ \A g \in 1..Len(routers) :
                       routers'[g].middlewares = routers[g].middlewares
                 /\ \A c \in 1..Len(routers') :
                       c \notin Range(Lineage(routers', paths'[n].router)) =>
                           (OwnMiddlewares(routers', c) \ Inherited(routers', paths'[n]))
                           \cap ChainIds(router'.handlers[KeyOf(paths'[n])]) = {}]_vars

\* two groups of the root: one registered a before-middleware, the other a
\* path whose chain holds no middleware
C5_Witness ==
    \E n \in 1..Len(paths), c \in 1..Len(routers) :
        /\ paths[n].router # 1
        /\ c # 1
        /\ c \notin Range(Lineage(routers, paths[n].router))
        /\ routers[c].middlewares.Before # <<>>
        /\ routers[1].middlewares = EmptyMiddlewares
        /\ routers[paths[n].router].middlewares = EmptyMiddlewares
        /\ KeyOf(paths[n]) \in DOMAIN router.handlers
        /\ ChainIds(router.handlers[KeyOf(paths[n])]) \cap UserMiddlewares = {}

\* C6: Path(method, u, view) on router r registers the path in the fasthttp
\* router under the prefixes of r's lineage, outermost first, followed by u;
\* on the root router that is u.
C6_FullPath ==
    [][\A r \in 1..Len(routers), method \in Methods, u \in Urls, v \in UserViews :
          (Path(r, method, u, PlainView(v)) /\ ~panicked') =>
              /\ Len(paths') = Len(paths) + 1
              /\ paths'[Len(paths')].url =
                    PrefixConcat(routers, Lineage(routers, r), Len(Lineage(routers, r))) \o u
              /\ <<method, paths'[Len(paths')].url>> \in DOMAIN router'.handlers
              /\ (r = 1 => <<method, u>> \in DOMAIN router'.handlers)]_vars

\* a path of a group of a group, the two prefixes different
C6_Witness ==
    \E n \in 1..Len(paths) :
        \E line \in {Lineage(routers, paths[n].router)} :
            /\ Len(line) = 3
            /\ routers[line[2]].prefix # routers[line[3]].prefix
            /\ \E u \in Urls :
                  paths[n].url = routers[line[2]].prefix \o routers[line[3]].prefix \o u
            /\ KeyOf(paths[n]) \in DOMAIN router.handlers

\* C10: once the application registered its own OPTIONS view for a url, the
\* handler serving OPTIONS on that url is the application's view, never the
\* automatic handler that wraps emptyView.
C10_UserOptionsKept ==
    \A n \in 1..Len(paths) :
        paths[n].method = MethodOptions =>
            /\ KeyOf(paths[n]) \in DOMAIN router.handlers
            /\ \A k \in 1..router.handlers[KeyOf(paths[n])].chainLen :
                  router.handlers[KeyOf(paths[n])].chain[k].kind = "view" =>
                      router.handlers[KeyOf(paths[n])].chain[k].id # EmptyViewId

----------------------------------------------------------------------------
(* The dispatch of a request *)

ChainLen == router.handlers[cur].chainLen

\* C3: a handler that returns an error is the last handler invoked for the
\* request and the error view is called once, with that error; while no
\* handler returned an error the error view is not called.
C3_ErrorHaltsChain ==
    /\ \A k \in 1..Len(trace) :
          /\ \A j \in 1..Len(trace) : j < k => trace[j].pos < trace[k].pos
          /\ trace[k].err # NoError =>
                /\ k = Len(trace)
                /\ pc \in {"release", "done"}
                /\ Len(errorViewCalls) = 1
                /\ errorViewCalls[1].err = trace[k].err
    /\ (\A k \in 1..Len(trace) : trace[k].err = NoError) => errorViewCalls = <<>>

\* a request is over: a handler before the last of the chain returned an
\* error and the error view was called
C3_Witness ==
    /\ pc = "done"
    /\ Len(trace) >= 2
    /\ trace[Len(trace)].err # NoError
    /\ trace[Len(trace)].pos < ChainLen
    /\ Len(errorViewCalls) = 1

\* C4: the error view is called with status code 500 when the response
\* status was 200 when the handler returned the error, and with the response
\* status otherwise.
C4_InferredStatus ==
    \A k \in 1..Len(errorViewCalls) :
        errorViewCalls[k].statusCode =
            IF errorViewCalls[k].status = StatusOK THEN StatusInternalServerError
            ELSE errorViewCalls[k].status

\* an earlier handler set another status, a later one returned an error
C4_Witness ==
    /\ Len(trace) >= 2
    /\ Len(errorViewCalls) = 1
    /\ errorViewCalls[1].status # StatusOK
    /\ errorViewCalls[1].statusCode = errorViewCalls[1].status
    /\ response.status = errorViewCalls[1].status

\* C7: a handler is invoked only right after the handler of the position
\* before it returned nil and called Next in that invocation; a handler that
\* returns nil without calling Next ends the chain and the error view is
\* not called.
C7_NextGatesChain ==
    /\ \A k \in 2..Len(trace) :
          /\ trace[k].pos = trace[k - 1].pos + 1
          /\ trace[k - 1].err = NoError
          /\ trace[k - 1].next
    /\ \A k \in 1..Len(trace) :
          (trace[k].err = NoError /\ ~trace[k].next) =>
              /\ k = Len(trace)
              /\ pc \in {"release", "done"}
              /\ errorViewCalls = <<>>

\* a handler called Next, the one after it returned nil without calling it,
\* and the request ended before the end of the chain
C7_Witness ==
    /\ pc = "done"
    /\ Len(trace) >= 2
    /\ trace[Len(trace) - 1].next
    /\ trace[Len(trace)].err = NoError
    /\ ~trace[Len(trace)].next
    /\ trace[Len(trace)].pos < ChainLen
    /\ errorViewCalls = <<>>

\* C8: while a request is served the context was acquired once and not yet
\* released, when the request is over it was released once, and every handler
\* and error view was called with a context that was held.
C8_AcquireReleaseOnce ==
    /\ pc \in {"loop", "release"} => (acquired = 1 /\ released = 0 /\ held)
    /\ pc = "done" => (acquired = 1 /\ released = 1 /\ ~held)
    /\ pc = "idle" => (acquired = 0 /\ released = 0 /\ ~held)
    /\ \A k \in 1..Len(trace) : trace[k].held
    /\ \A k \in 1..Len(errorViewCalls) : errorViewCalls[k].held

\* a request that ended with the error view is over
C8_Witness ==
    /\ pc = "done"
    /\ released = 1
    /\ errorViewCalls # <<>>

\* the chain goes on after the handler trace[k]
Continues(k) ==
    \/ trace[k].pos = ChainLen
    \/ Len(trace) > k
    \/ (pc = "loop" /\ i = trace[k].pos + 1)

\* C9: at the view's position the view is not called when skipView is set,
\* and the chain goes on; it is called once when skipView is not set, and
\* when it returns nil the chain goes on whether or not the view called Next.
C9_ViewPosition ==
    /\ Cardinality({k \in 1..Len(trace) : trace[k].kind = "view"}) <= 1
    /\ \A k \in 1..Len(trace) :
          trace[k].kind = "view" =>
              /\ trace[k].skip => (~trace[k].view /\ Continues(k))
              /\ ~trace[k].skip =>
                    /\ trace[k].view
                    /\ trace[k].err = NoError => Continues(k)

\* a view that returned nil and did not call Next, followed by an
\* after-middleware
C9_Witness ==
    \E k \in 1..Len(trace) :
        /\ trace[k].kind = "view"
        /\ trace[k].view
        /\ ~trace[k].fnNext
        /\ trace[k].err = NoError
        /\ Len(trace) > k

====
